---------------------------- MODULE Spec2Model ----------------------------
(***************************************************************************)
(* Model of backend/src/app.py of DocGenerator: the coordinate extractors  *)
(* (parse_coords_json, parse_coords_excel), the chart renderer             *)
(* (create_plot), the PDF rasterizer (pdf_to_images) and the request       *)
(* handler generate_doc with its exception-to-status mapping.              *)
(*                                                                         *)
(* Python values are modelled as records.  A call either returns a value   *)
(* or raises: Return(v) / Raise(type, msg).  An exception message is a     *)
(* sequence of text tokens, so that f"prefix: {exc}" is concatenation and  *)
(* `"password" in msg` is token membership.                                *)
(***************************************************************************)
EXTENDS Integers, Sequences, FiniteSets, TLC

VARIABLES
    pc,          \* position of generate_doc: idle/extract/rasterize/plot/assemble/done
    req,         \* the request's form fields
    coords,      \* generate_doc's local `coords`
    pdf_images,  \* generate_doc's local `pdf_images`
    plot_buf,    \* generate_doc's local `plot_buf` (what create_plot drew)
    response,    \* what the handler returned: status, detail, body
    figures,     \* number of figures held by pyplot's process-wide registry
    docs,        \* number of fitz documents opened and not closed by the code
    log,         \* calls the current request has made, in order
    nreq,        \* requests received so far
    arg,         \* argument of a direct call of one function
    ret          \* result of that direct call

vars == <<pc, req, coords, pdf_images, plot_buf, response, figures, docs, log, nreq, arg, ret>>

handlerVars == <<pc, req, coords, pdf_images, plot_buf, response, figures, docs, log, nreq>>

--------------------------------------------------------------------------
(* Bounds of the model *)

MaxElems == 11      \* longest JSON array / most data rows in a direct call
MaxOdd == 2         \* most elements (rows) of an input that are not plain numeric pairs
MaxPts == 4         \* longest coordinate sequence given to create_plot directly
MaxLenH == 2        \* longest JSON array / most data rows in a handler request
MaxPages == 2       \* most pages of an uploaded PDF
MaxRequests == 2    \* requests handled one after the other

(* Program constants *)

JsonCap == 10       \* return coords[:10]
ExcelCap == 10      \* if len(coords) >= 10: break

--------------------------------------------------------------------------
(* Python values and exceptions *)

None == [t |-> "None", n |-> 0, items |-> <<>>]
Num(k) == [t |-> "num", n |-> k, items |-> <<>>]        \* a JSON number / numeric cell
NumStr(k) == [t |-> "numstr", n |-> k, items |-> <<>>]  \* the string "k": float() accepts it
Str == [t |-> "str", n |-> 0, items |-> <<>>]           \* a string float() rejects
Null == [t |-> "null", n |-> 0, items |-> <<>>]         \* JSON null / empty cell (Python None)
Obj == [t |-> "object", n |-> 0, items |-> <<>>]        \* a JSON object (dict)
List(s) == [t |-> "list", n |-> 0, items |-> s]         \* a JSON array (list)

Return(v) == [ok |-> TRUE, type |-> "", msg |-> <<>>, val |-> v]
Raise(type, msg) == [ok |-> FALSE, type |-> type, msg |-> msg, val |-> <<>>]

\* isinstance(exc, base) for the exception classes that occur.  LinAlgError
\* (numpy) and JSONDecodeError (json) derive from ValueError; everything
\* here derives from Exception.
IsInstance(type, base) ==
    \/ type = base
    \/ base = "Exception"
    \/ base = "ValueError" /\ type \in {"LinAlgError", "JSONDecodeError"}
    \/ base = "RuntimeError" /\ type \in {"FileDataError"}

\* float(v)
float(v) ==
    CASE v.t = "num" -> Return(v.n)
      [] v.t = "numstr" -> Return(v.n)
      [] v.t = "str" -> Raise("ValueError", <<"could not convert string to float">>)
      [] OTHER -> Raise("TypeError", <<"float() argument must be a string or a real number">>)

--------------------------------------------------------------------------
(* parse_coords_json *)

\* json.loads(coords_json): the text is modelled by what it decodes to.
\*   [t |-> "text", v |-> value]  decodes to value
\*   [t |-> "garbage"]            does not decode ("not json")
\*   [t |-> "empty"]              the empty string "" (does not decode either)
Text(v) == [t |-> "text", v |-> v]
Garbage == [t |-> "garbage", v |-> None]
EmptyText == [t |-> "empty", v |-> None]

json_loads(s) ==
    IF s.t = "text" THEN Return(s.v)
    ELSE Raise("JSONDecodeError", <<"Expecting value">>)

\* the for loop of lines 48-50 over the rest of `data`, `acc` being coords so far
RECURSIVE json_loop(_, _)
json_loop(data, acc) ==
    IF data = <<>> THEN Return(acc)
    ELSE LET pair == Head(data) IN
         IF pair.t = "list" /\ Len(pair.items) = 2
         THEN LET fx == float(pair.items[1])
                  fy == float(pair.items[2])
              IN  IF ~fx.ok THEN fx
                  ELSE IF ~fy.ok THEN fy
                  ELSE json_loop(Tail(data), Append(acc, <<fx.val, fy.val>>))
         ELSE json_loop(Tail(data), acc)

\* coords[:k]
Prefix(s, k) == SubSeq(s, 1, IF Len(s) < k THEN Len(s) ELSE k)

\* the body of the try block, lines 43-55
json_body(coords_json) ==
    LET data == json_loads(coords_json) IN
    IF ~data.ok THEN data
    ELSE IF data.val.t # "list"
    THEN Raise("ValueError", <<"JSON must be a list of coordinates">>)
    ELSE LET r == json_loop(data.val.items, <<>>) IN
         IF ~r.ok THEN r
         ELSE IF r.val = <<>> THEN Raise("ValueError", <<"coordinate list is empty">>)
         ELSE Return(Prefix(r.val, JsonCap))

\* except Exception as exc: raise ValueError(f"<prefix>: {exc}")
Rewrap(r, prefix) ==
    IF r.ok THEN r ELSE Raise("ValueError", <<prefix>> \o r.msg)

parse_coords_json(coords_json) == Rewrap(json_body(coords_json), "Invalid coordinates: ")

--------------------------------------------------------------------------
(* parse_coords_excel *)

\* An uploaded spreadsheet: `ok` says whether load_workbook can read it,
\* `rows` are the active sheet's rows as iter_rows(values_only=True) yields
\* them (row 1 is the header), each a tuple of cell values.
Upload(ok, rows) == [t |-> "file", ok |-> ok, rows |-> rows]
NoFile == [t |-> "None", ok |-> FALSE, rows |-> <<>>]

load_workbook(f) ==
    IF f.ok THEN Return(f.rows)
    ELSE Raise("InvalidFileException", <<"File is not a zip file">>)

\* ws.iter_rows(values_only=True): the header row is read as data
iter_rows_with_header(rows) == rows

\* ws.iter_rows(min_row=2, values_only=True)
iter_rows(rows) == SubSeq(rows, 2, Len(rows))

\* the for loop of lines 78-83 over the remaining rows
RECURSIVE excel_loop(_, _)
excel_loop(rows, acc) ==
    IF rows = <<>> THEN Return(acc)
    ELSE LET row == Head(rows) IN
         IF Len(row) < 2
         THEN Raise("ValueError", <<"not enough values to unpack (expected 2, got 1)">>)
         ELSE LET x == row[1]
                  y == row[2]
                  fx == float(x)
                  fy == float(y)
                  both == x.t # "null" /\ y.t # "null"
                  acc2 == IF both THEN Append(acc, <<fx.val, fy.val>>) ELSE acc
              IN  IF both /\ ~fx.ok THEN fx
                  ELSE IF both /\ ~fy.ok THEN fy
                  ELSE IF Len(acc2) >= ExcelCap THEN Return(acc2)
                  ELSE excel_loop(Tail(rows), acc2)

\* the body of the try block, lines 74-88
excel_body(excel_file) ==
    LET wb == load_workbook(excel_file) IN
    IF ~wb.ok THEN wb
    ELSE LET r == excel_loop(iter_rows(wb.val), <<>>) IN
         IF ~r.ok THEN r
         ELSE IF r.val = <<>> THEN Raise("ValueError", <<"no coordinates in the Excel file">>)
         ELSE r

parse_coords_excel(excel_file) == Rewrap(excel_body(excel_file), "Excel error: ")

--------------------------------------------------------------------------
(* Inputs of the direct calls *)

\* the sequence of length n whose i-th element is plain[i] except at the
\* positions P, which hold the elements f gives them
MixedSeq(n, P, f, plain) == [i \in 1..n |-> IF i \in P THEN f[i] ELSE plain[i]]

\* the sets of no more than maxOdd positions of 1..n
OddSets(n, maxOdd) == { Q \in SUBSET (1..n) : Cardinality(Q) <= maxOdd }

\* the sequences of length 0..maxLen that are plain except at no more than
\* maxOdd positions, which hold any element of `odd`
Mixed(maxLen, maxOdd, odd, plain) ==
    UNION { UNION { { MixedSeq(n, P, f, plain) : f \in [P -> odd] } : P \in OddSets(n, maxOdd) }
            : n \in 0..maxLen }

ValidPair == [i \in 1..20 |-> List(<<Num(i), Num(i + 100)>>)]

OddElems ==
    { Num(7), Obj, Null, List(<<Num(1)>>), List(<<Num(1), Num(2), Num(3)>>),
      List(<<Str, Num(1)>>), List(<<Num(1), Null>>), List(<<NumStr(50), Num(51)>>) }

ValidRow == [i \in 1..20 |-> <<Num(i), Num(i + 100)>>]

OddRows ==
    { <<Null, Num(1)>>, <<Num(1), Null>>, <<Null, Null>>,
      <<Str, Num(1)>>, <<Num(1), Str>>, <<NumStr(50), Num(51)>> }

Header == <<Str, Str>>

Pending == [ok |-> FALSE, type |-> "pending", msg |-> <<>>, val |-> <<>>]

--------------------------------------------------------------------------
(* create_plot *)

\* an unstable sort: p goes before the elements whose key equals its own
RECURSIVE insert_unstable(_, _)
insert_unstable(s, p) ==
    IF s = <<>> THEN <<p>>
    ELSE IF p[1] <= Head(s)[1] THEN <<p>> \o s
    ELSE <<Head(s)>> \o insert_unstable(Tail(s), p)

\* sorted(..., key=lambda p: p[0]) is a stable sort: p goes after every
\* element whose key is not greater than its own
RECURSIVE insert_sorted(_, _)
insert_sorted(s, p) ==
    IF s = <<>> THEN <<p>>
    ELSE IF p[1] < Head(s)[1] THEN <<p>> \o s
    ELSE <<Head(s)>> \o insert_sorted(Tail(s), p)

RECURSIVE sorted_by_x(_)
sorted_by_x(pairs) ==
    IF pairs = <<>> THEN <<>>
    ELSE insert_sorted(sorted_by_x(SubSeq(pairs, 1, Len(pairs) - 1)), pairs[Len(pairs)])

RECURSIVE Sum(_)
Sum(s) == IF s = <<>> THEN 0 ELSE Head(s) + Sum(Tail(s))

\* np.polyfit(xs, ys, 1): the least-squares line through the points, as the
\* exact fractions slope = sn / den, intercept = in / den (den = 0: the
\* data is rank deficient and numpy returns a minimum-norm line, not
\* modelled).  `over` records the points in the order they were passed.
polyfit(pts) ==
    LET n == Len(pts)
        sx == Sum([i \in 1..n |-> pts[i][1]])
        sy == Sum([i \in 1..n |-> pts[i][2]])
        sxx == Sum([i \in 1..n |-> pts[i][1] * pts[i][1]])
        sxy == Sum([i \in 1..n |-> pts[i][1] * pts[i][2]])
    IN  [sn |-> n * sxy - sx * sy, in |-> sy * sxx - sx * sxy,
         den |-> n * sxx - sx * sx, over |-> pts]

\* np.polyval(p, xs_s): the numerators of the fitted y at each x
polyval(p, sorted) == [i \in 1..Len(sorted) |-> <<sorted[i][1], p.sn * sorted[i][1] + p.in>>]

\* if len(xs) >= 2
needs_trend(pts) == Len(pts) >= 2

NoFit == [sn |-> 0, in |-> 0, den |-> 0, over |-> <<>>]

\* What the libraries do during one call: `fit` is np.polyfit's outcome
\* ("ok", or "LinAlgError" when the SVD does not converge), `save` is the
\* outcome of tight_layout/savefig ("ok" or "MemoryError").
PlotLibs == [fit : {"ok", "LinAlgError"}, save : {"ok", "MemoryError"}]

\* create_plot(coords).  val is what was drawn, figs the number of figures
\* the call leaves in pyplot's registry, coords the argument list afterwards.
create_plot(cs, lib) ==
    LET line == sorted_by_x(cs)
        trend == needs_trend(cs)
        p == IF trend THEN polyfit(cs) ELSE NoFit
        drawn == [scatter |-> cs, line |-> line, fit |-> p,
                  trend |-> IF trend THEN polyval(p, line) ELSE <<>>,
                  text |-> IF trend THEN <<"trend", p.sn, p.in, p.den>> ELSE <<>>]
        raised == IF cs = <<>>
                  THEN Raise("ValueError", <<"not enough values to unpack (expected 2, got 0)">>)
                  ELSE IF trend /\ lib.fit # "ok"
                  THEN Raise(lib.fit, <<"SVD did not converge in Linear Least Squares">>)
                  ELSE IF lib.save # "ok" THEN Raise(lib.save, <<"out of memory">>)
                  ELSE Return(drawn)
    IN  [ok |-> raised.ok, type |-> raised.type, msg |-> raised.msg, val |-> raised.val,
         figs |-> IF cs # <<>> /\ ~raised.ok THEN 1 ELSE 0,
         coords |-> cs]

--------------------------------------------------------------------------
(* pdf_to_images *)

\* An uploaded PDF is modelled by what the fitz back end does with it:
\*   empty   the upload's content is b""
\*   open    what fitz.open does: Return(<<>>) or Raise(type, msg)
\*   pages   per page what happens to it: "ok", "render_MemoryError" or
\*           "render_RuntimeError" (get_pixmap/tobytes raises), or
\*           "load_RuntimeError" (the document iterator raises while
\*           loading the page, outside the per-page try)
Pdf(empty, open, pages) == [t |-> "file", empty |-> empty, open |-> open, pages |-> pages]
NoPdf == [t |-> "None", empty |-> TRUE, open |-> Return(<<>>), pages |-> <<>>]

PageOutcomes == {"ok", "render_MemoryError", "render_RuntimeError", "load_RuntimeError"}

\* str(e).lower(), token by token
lower(tok) == IF tok = "Password required" THEN "password required" ELSE tok

\* `sub in msg`: which of the substrings the code looks for a token holds
Contains(tok, sub) ==
    \/ tok = sub
    \/ sub = "password" /\ tok = "password required"
    \/ sub = "encrypted" /\ tok = "document is encrypted"
    \/ sub = "xref" /\ tok = "cannot find xref table"

Has(msg, sub) == \E i \in 1..Len(msg) : Contains(lower(msg[i]), sub)

\* the except RuntimeError clause of the open step, lines 154-164
classify_open(e) ==
    IF Has(e.msg, "encrypted") \/ Has(e.msg, "password")
    THEN Raise("ValueError", <<"PDF is password protected">>)
    ELSE IF Has(e.msg, "cannot open broken document")
    THEN Raise("ValueError", <<"PDF is corrupt or has an invalid format">>)
    ELSE IF Has(e.msg, "xref") \/ Has(e.msg, "no objects")
    THEN Raise("ValueError", <<"PDF has a corrupted structure">>)
    ELSE Raise("ValueError", <<"Cannot open PDF: ">> \o e.msg)

\* which exceptions the inner `except RuntimeError` catches
open_caught(e) == IsInstance(e.type, "RuntimeError")

\* lines 152-164: fitz.open and the classification of its failure
open_step(pdf) ==
    IF pdf.open.ok THEN pdf.open
    ELSE IF open_caught(pdf.open) THEN classify_open(pdf.open)
    ELSE pdf.open

Image(k) == [src |-> "pdf", page |-> k]

\* a best-effort loop: a page that fails to render is left out and the
\* loop goes on with the next page
RECURSIVE page_loop_best_effort(_, _, _, _)
page_loop_best_effort(pages, k, images, rendered) ==
    IF k > Len(pages) THEN Return(<<images, rendered>>)
    ELSE IF pages[k] = "ok"
    THEN page_loop_best_effort(pages, k + 1, Append(images, Image(k)), Append(rendered, k))
    ELSE page_loop_best_effort(pages, k + 1, images, Append(rendered, k))

\* the page loop, lines 166-179, from the page at index k on.  val is
\* <<images, pages on which get_pixmap was called>>.
RECURSIVE page_loop(_, _, _, _)
page_loop(pages, k, images, rendered) ==
    IF k > Len(pages) THEN Return(<<images, rendered>>)
    ELSE CASE pages[k] = "ok" ->
                page_loop(pages, k + 1, Append(images, Image(k)), Append(rendered, k))
           [] pages[k] = "render_MemoryError" ->
                [Raise("ValueError", <<"Not enough memory to render page ", ToString(k),
                                       ". PDF is too large or has a very high resolution.">>)
                 EXCEPT !.val = <<images, Append(rendered, k)>>]
           [] pages[k] = "render_RuntimeError" ->
                [Raise("ValueError", <<"Error rendering page ", ToString(k), ": ",
                                       "cannot render page">>)
                 EXCEPT !.val = <<images, Append(rendered, k)>>]
           [] OTHER ->
                [Raise("RuntimeError", <<"cannot load page">>) EXCEPT !.val = <<images, rendered>>]

\* the outer handlers, lines 183-189
outer_except(r) ==
    IF r.ok THEN r
    ELSE IF IsInstance(r.type, "MemoryError")
    THEN Raise("ValueError", <<"Not enough memory to process the PDF. ",
                               "Try uploading a smaller file.">>)
    ELSE Raise("ValueError", <<"PDF error: ">> \o r.msg)

\* pdf_to_images(pdf_bytes).  val is the list of images returned, docs the
\* number of documents the call opened (it closes none), rendered the
\* pages on which get_pixmap was called.
pdf_to_images(pdf) ==
    LET opened == IF pdf.empty THEN Raise("ValueError", <<"PDF file is empty">>)
                  ELSE open_step(pdf)
        looped == IF opened.ok THEN page_loop(pdf.pages, 1, <<>>, <<>>) ELSE opened
        body == IF looped.ok THEN Return(looped.val[1])
                ELSE Raise(looped.type, looped.msg)
        out == outer_except(body)
    IN  [ok |-> out.ok, type |-> out.type, msg |-> out.msg, val |-> out.val,
         docs |-> IF opened.ok THEN 1 ELSE 0,
         rendered |-> IF opened.ok THEN looped.val[2] ELSE <<>>]

--------------------------------------------------------------------------
(* generate_doc *)

NoDrawing == [scatter |-> <<>>, line |-> <<>>, fit |-> NoFit, trend |-> <<>>, text |-> <<>>]
NoResponse == [status |-> 0, detail |-> <<>>, body |-> <<>>]
NoRequest == [description |-> "None", coords_json |-> None, excel_file |-> NoFile,
              pdf_file |-> NoPdf]

\* the two except clauses, lines 238-248
http_exception(exc) ==
    IF IsInstance(exc.type, "ValueError")
    THEN [status |-> 400, detail |-> exc.msg, body |-> <<>>]
    ELSE [status |-> 500, detail |-> <<"Internal server error: ">> \o exc.msg, body |-> <<>>]

\* `is not None` instead of truthiness: an empty text counts as supplied
is_not_None(v) == v.t # "None"

\* `if excel_file:` / `elif coords_json:` / `if pdf_file:`
Truthy(v) == v.t \notin {"None", "empty"}

\* the text payload as a fallback when the spreadsheet cannot be used
extract_with_fallback(r) ==
    IF Truthy(r.excel_file) /\ parse_coords_excel(r.excel_file).ok
    THEN <<"parse_coords_excel", parse_coords_excel(r.excel_file)>>
    ELSE IF Truthy(r.coords_json)
    THEN <<"parse_coords_json", parse_coords_json(r.coords_json)>>
    ELSE <<"none", Raise("ValueError", <<"No coordinates were passed">>)>>

\* which extractor lines 199-204 choose: <<call made, its result>>
extract(r) ==
    IF Truthy(r.excel_file)
    THEN <<"parse_coords_excel", parse_coords_excel(r.excel_file)>>
    ELSE IF Truthy(r.coords_json)
    THEN <<"parse_coords_json", parse_coords_json(r.coords_json)>>
    ELSE <<"none", Raise("ValueError", <<"No coordinates were passed">>)>>

\* the elements python-docx appends, lines 215-226
Heading(text) == [kind |-> "heading", text |-> <<text>>, img |-> [src |-> "none", page |-> 0]]
Paragraph(text) == [kind |-> "paragraph", text |-> text, img |-> [src |-> "none", page |-> 0]]
Picture(img) == [kind |-> "picture", text |-> <<>>, img |-> img]

\* enumerate(pdf_images): the label paired with the first image is 0
label_from_zero(j) == j - 1

\* enumerate(pdf_images, start=1): the label paired with the j-th image
label_of(j) == j

page_entries(images) ==
    IF images = <<>> THEN <<>>
    ELSE [j \in 1..(2 * Len(images)) |->
            IF j % 2 = 1
            THEN Paragraph(<<"Page ", ToString(label_of((j + 1) \div 2)), ":">>)
            ELSE Picture(images[j \div 2])]

\* description or "Описание работы"
description_text(d) == IF d = "None" THEN <<"default description">> ELSE <<d>>

document(description, images) ==
    <<Heading("Description"), Paragraph(description_text(description)),
      Heading("Chart by coordinates"), Paragraph(<<"Chart.">>),
      Picture([src |-> "chart", page |-> 0])>> \o page_entries(images)

\* Assembly: add_paragraph raises ValueError for a description holding
\* control characters (lxml refuses them); add_picture/save fail as the
\* library outcome `lib` says ("ok" or "MemoryError").
assemble(description, images, lib) ==
    IF description = "control"
    THEN Raise("ValueError", <<"All strings must be XML compatible">>)
    ELSE IF lib # "ok" THEN Raise(lib, <<"out of memory">>)
    ELSE Return(document(description, images))

Descriptions == {"None", "text", "control"}

HandlerTexts ==
    { None, EmptyText, Garbage }
    \cup { Text(List(a)) : a \in Mixed(MaxLenH, 1, { List(<<Str, Num(1)>>) },
                                        [i \in 1..20 |-> List(<<Num(i + 30), Num(i + 130)>>)]) }

HandlerUploads ==
    { NoFile, Upload(FALSE, <<>>) }
    \cup { Upload(TRUE, <<Header>> \o d) : d \in Mixed(MaxLenH, 1, { <<Null, Num(1)>> }, ValidRow) }

HandlerPdfs ==
    { NoPdf, Pdf(TRUE, Return(<<>>), <<>>),
      Pdf(FALSE, Raise("RuntimeError", <<"password required">>), <<>>),
      Pdf(FALSE, Raise("MemoryError", <<"out of memory">>), <<>>) }
    \cup UNION { { Pdf(FALSE, Return(<<>>), pg)
                   : pg \in [1..n -> {"ok", "render_MemoryError", "render_RuntimeError"}] }
                 : n \in 0..MaxPages }

Requests ==
    [description : Descriptions, coords_json : HandlerTexts, excel_file : HandlerUploads,
     pdf_file : HandlerPdfs]

\* the handler is called with the request's form fields
Receive ==
    /\ pc = "idle"
    /\ nreq < MaxRequests
    /\ req' \in Requests
    /\ pc' = "extract"
    /\ nreq' = nreq + 1
    /\ coords' = <<>>
    /\ pdf_images' = <<>>
    /\ plot_buf' = NoDrawing
    /\ response' = NoResponse
    /\ log' = <<>>
    /\ UNCHANGED <<figures, docs, arg, ret>>

\* lines 199-204
Extract ==
    /\ pc = "extract"
    /\ LET e == extract(req) IN
        /\ log' = IF e[1] = "none" THEN log ELSE Append(log, <<e[1], 0>>)
        /\ IF e[2].ok
           THEN /\ coords' = e[2].val
                /\ pc' = "rasterize"
                /\ UNCHANGED response
           ELSE /\ response' = http_exception(e[2])
                /\ pc' = "done"
                /\ UNCHANGED coords
    /\ UNCHANGED <<req, pdf_images, plot_buf, figures, docs, nreq, arg, ret>>

\* lines 207-209
Rasterize ==
    /\ pc = "rasterize"
    /\ IF Truthy(req.pdf_file)
       THEN LET r == pdf_to_images(req.pdf_file) IN
            /\ log' = log \o <<(<<"pdf_file.read", 0>>), (<<"pdf_to_images", 0>>)>>
                          \o [i \in 1..Len(r.rendered) |-> <<"get_pixmap", r.rendered[i]>>]
            /\ docs' = docs + r.docs
            /\ IF r.ok
               THEN /\ pdf_images' = r.val
                    /\ pc' = "plot"
                    /\ UNCHANGED response
               ELSE /\ response' = http_exception(r)
                    /\ pc' = "done"
                    /\ UNCHANGED pdf_images
       ELSE /\ pc' = "plot"
            /\ UNCHANGED <<log, docs, pdf_images, response>>
    /\ UNCHANGED <<req, coords, plot_buf, figures, nreq, arg, ret>>

\* line 212
Plot ==
    /\ pc = "plot"
    /\ \E lib \in PlotLibs :
         LET r == create_plot(coords, lib) IN
         /\ log' = Append(log, <<"create_plot", 0>>)
         /\ figures' = figures + r.figs
         /\ coords' = r.coords
         /\ IF r.ok
            THEN /\ plot_buf' = r.val
                 /\ pc' = "assemble"
                 /\ UNCHANGED response
            ELSE /\ response' = http_exception(r)
                 /\ pc' = "done"
                 /\ UNCHANGED plot_buf
    /\ UNCHANGED <<req, pdf_images, docs, nreq, arg, ret>>

\* lines 215-236
Assemble ==
    /\ pc = "assemble"
    /\ \E lib \in {"ok", "MemoryError"} :
         LET r == assemble(req.description, pdf_images, lib) IN
         /\ log' = Append(log, <<"Document", 0>>)
         /\ response' = IF r.ok THEN [status |-> 200, detail |-> <<>>, body |-> r.val]
                                 ELSE http_exception(r)
         /\ pc' = "done"
    /\ UNCHANGED <<req, coords, pdf_images, plot_buf, figures, docs, nreq, arg, ret>>

\* the handler has returned (or raised HTTPException): its frame is gone and
\* the process waits for the next request; the registries stay as they are
Finish ==
    /\ pc = "done"
    /\ pc' = "idle"
    /\ req' = NoRequest
    /\ coords' = <<>>
    /\ pdf_images' = <<>>
    /\ plot_buf' = NoDrawing
    /\ response' = NoResponse
    /\ log' = <<>>
    /\ UNCHANGED <<figures, docs, nreq, arg, ret>>

Init ==
    /\ pc = "idle"
    /\ req = NoRequest
    /\ coords = <<>>
    /\ pdf_images = <<>>
    /\ plot_buf = NoDrawing
    /\ response = NoResponse
    /\ figures = 0
    /\ docs = 0
    /\ log = <<>>
    /\ nreq = 0
    /\ arg = <<>>
    /\ ret = Pending

Next == Receive \/ Extract \/ Rasterize \/ Plot \/ Assemble \/ Finish

Spec == Init /\ [][Next]_vars

--------------------------------------------------------------------------
(* Direct calls of one function: the argument is drawn by Init, the call
   stores the function's result in ret *)

HandlerIdle ==
    /\ pc = "idle"
    /\ req = NoRequest
    /\ coords = <<>>
    /\ pdf_images = <<>>
    /\ plot_buf = NoDrawing
    /\ response = NoResponse
    /\ figures = 0
    /\ docs = 0
    /\ log = <<>>
    /\ nreq = 0

Called == ret.type # "pending"

\* the texts given to parse_coords_json: texts that do not decode, texts
\* that decode to something other than an array, and arrays
InitJson ==
    /\ HandlerIdle
    /\ ret = Pending
    /\ \/ arg \in { Garbage, EmptyText, Text(Num(3)), Text(Obj) }
       \/ \E n \in 0..MaxElems : \E P \in OddSets(n, MaxOdd) : \E f \in [P -> OddElems] :
             arg = Text(List(MixedSeq(n, P, f, ValidPair)))

CallParseCoordsJson ==
    /\ ~Called
    /\ ret' = parse_coords_json(arg)
    /\ UNCHANGED <<handlerVars, arg>>

SpecJson == InitJson /\ [][CallParseCoordsJson]_vars

\* the uploads given to parse_coords_excel: a file that is no workbook, an
\* empty sheet, sheets of two columns with a header row, and sheets of one
\* and of three columns (the cells of one sheet all have the sheet's width)
InitExcel ==
    /\ HandlerIdle
    /\ ret = Pending
    /\ \/ arg \in { Upload(FALSE, <<>>), Upload(TRUE, <<>>) }
       \/ \E n \in 0..MaxElems : \E P \in OddSets(n, MaxOdd) : \E f \in [P -> OddRows] :
             arg = Upload(TRUE, <<Header>> \o MixedSeq(n, P, f, ValidRow))
       \/ \E n \in 1..3 : arg = Upload(TRUE, [i \in 1..n |-> <<Num(i)>>])
       \/ \E n \in 1..3 :
             arg = Upload(TRUE, [i \in 1..n |-> IF i = 1 THEN <<Str, Str, Str>>
                                                 ELSE <<Num(i), Num(i + 100), Null>>])

CallParseCoordsExcel ==
    /\ ~Called
    /\ ret' = parse_coords_excel(arg)
    /\ UNCHANGED <<handlerVars, arg>>

SpecExcel == InitExcel /\ [][CallParseCoordsExcel]_vars

\* coordinate sequences as the extractors return them: 1..MaxPts pairs
Points == UNION { [1..n -> {1, 2, 3} \X {1, 2}] : n \in 1..MaxPts }

InitPlot == HandlerIdle /\ arg \in Points /\ ret = Pending

CallCreatePlot ==
    /\ ~Called
    /\ \E lib \in PlotLibs : ret' = create_plot(arg, lib)
    /\ UNCHANGED <<handlerVars, arg>>

SpecPlot == InitPlot /\ [][CallCreatePlot]_vars

OpenTokens ==
    { "password required", "Password required", "document is encrypted",
      "cannot open broken document", "cannot find xref table", "no objects",
      "unknown format" }

OpenFailures ==
    { Raise(ty, m) : ty \in {"RuntimeError", "FileDataError", "ValueError", "MemoryError"},
                     m \in { <<a>> : a \in OpenTokens }
                           \cup { <<a, b>> : a \in OpenTokens, b \in OpenTokens } }

Pdfs ==
    { Pdf(TRUE, Return(<<>>), <<>>) }
    \cup { Pdf(FALSE, f, <<>>) : f \in OpenFailures }
    \cup UNION { { Pdf(FALSE, Return(<<>>), pg) : pg \in [1..n -> PageOutcomes] }
                 : n \in 0..(MaxPages + 1) }

InitPdf == HandlerIdle /\ arg \in Pdfs /\ ret = Pending

CallPdfToImages ==
    /\ ~Called
    /\ ret' = pdf_to_images(arg)
    /\ UNCHANGED <<handlerVars, arg>>

SpecPdf == InitPdf /\ [][CallPdfToImages]_vars

--------------------------------------------------------------------------
(* Properties *)

\* a value that can be coerced to floating point, and the number it becomes
Coercible(v) == v.t \in {"num", "numstr"}
Value(pair) == <<pair[1].n, pair[2].n>>

Min(a, b) == IF a < b THEN a ELSE b

IsValidPair(e) ==
    e.t = "list" /\ Len(e.items) = 2 /\ Coercible(e.items[1]) /\ Coercible(e.items[2])

\* C1 as claimed.  For a text that decodes to an array holding k valid
\* pairs (2-element arrays of values coercible to floating point), every
\* other element is skipped: parse_coords_json succeeds iff k >= 1 and then
\* returns the first min(k, 10) valid pairs in their order; it fails (with
\* the "Invalid coordinates" ValueError) iff the text does not decode, does
\* not decode to an array, or k = 0.
C1_SkipsEveryInvalidElement ==
    Called =>
        IF arg.t = "text" /\ arg.v.t = "list"
        THEN LET data == arg.v.items
                 valid == SelectSeq(data, IsValidPair)
                 k == Len(valid)
             IN  IF k >= 1
                 THEN /\ ret.ok
                      /\ ret.val = [i \in 1..Min(k, 10) |-> Value(valid[i].items)]
                 ELSE ~ret.ok /\ ret.type = "ValueError" /\ ret.msg[1] = "Invalid coordinates: "
        ELSE ~ret.ok /\ ret.type = "ValueError" /\ ret.msg[1] = "Invalid coordinates: "

\* the part of C1 the code does satisfy: when no 2-element array of the
\* payload holds a non-coercible value, the claim's outcome is the code's
C1_HoldsWithoutBadPairs ==
    (Called /\ arg.t = "text" /\ arg.v.t = "list"
       /\ \A i \in 1..Len(arg.v.items) :
             LET e == arg.v.items[i] IN e.t = "list" /\ Len(e.items) = 2 => IsValidPair(e))
    => C1_SkipsEveryInvalidElement

--------------------------------------------------------------------------

DataRows(f) == [i \in 1..(Len(f.rows) - 1) |-> f.rows[i + 1]]
BothNonNull(row) == Len(row) >= 2 /\ row[1].t # "null" /\ row[2].t # "null"
RowValid(row) == BothNonNull(row) /\ Coercible(row[1]) /\ Coercible(row[2])
RowOffending(row) == Len(row) < 2 \/ (BothNonNull(row) /\ ~RowValid(row))
ValidBefore(d, i) == Cardinality({ j \in 1..(i - 1) : RowValid(d[j]) })
IsExcelError(r) == ~r.ok /\ r.type = "ValueError" /\ r.msg[1] = "Excel error: "

\* C2 as claimed.  For a parseable sheet, a data row (from row 2 on)
\* contributes iff its first two cells are both non-null and every other
\* row is skipped without failing: with N >= 1 such rows the result is the
\* first min(N, 10) of them in row order, and the extractor fails only when
\* N = 0 or the file cannot be parsed.
C2_EveryNonNullRowContributes ==
    Called =>
        IF arg.ok /\ Len(arg.rows) >= 1
        THEN LET d == DataRows(arg)
                 rows == SelectSeq(d, BothNonNull)
                 N == Len(rows)
             IN  IF N >= 1
                 THEN ret.ok /\ ret.val = [i \in 1..Min(N, 10) |-> Value(rows[i])]
                 ELSE IsExcelError(ret)
        ELSE IsExcelError(ret)

\* C2 as amended.  Data rows are read in file order from row 2 and reading
\* stops as soon as 10 coordinates are collected, so a row is read iff
\* fewer than 10 valid rows precede it.  A row read whose first two cells
\* are not both non-null is skipped; a row read that has fewer than two
\* cells, or two non-null cells one of which does not coerce to floating
\* point, fails the whole extraction.  Otherwise the result is the first
\* min(N, 10) valid rows in row order, N being the number of rows with two
\* non-null coercible cells, and the extraction fails when N = 0.  Every
\* failure, an unparseable file included, is the "Excel error" ValueError.
C2_ReadRowsDecide ==
    Called =>
        LET d == IF Len(arg.rows) >= 1 THEN DataRows(arg) ELSE <<>>
            valid == SelectSeq(d, RowValid)
            N == Len(valid)
            fails == \/ ~arg.ok
                     \/ N = 0
                     \/ \E i \in 1..Len(d) : ValidBefore(d, i) < 10 /\ RowOffending(d[i])
        IN  IF fails THEN IsExcelError(ret)
            ELSE ret.ok /\ ret.val = [i \in 1..Min(N, 10) |-> Value(valid[i])]

\* C2's case: ten coordinates were collected and an unreadable row
\* follows the tenth valid one without influencing the result
C2_Witness ==
    /\ Called
    /\ ret.ok
    /\ Len(ret.val) = 10
    /\ \E i \in 1..(Len(arg.rows) - 1) : RowOffending(arg.rows[i + 1])

--------------------------------------------------------------------------
(* Properties of the request handler *)

Calls == [i \in 1..Len(log) |-> log[i][1]]
Made(call) == \E i \in 1..Len(log) : log[i][1] = call
LastCall == IF log = <<>> THEN "none" ELSE log[Len(log)][1]
Returned == pc = "done"
Supplied(v) == v.t \notin {"None", "empty"}

\* the taxonomy category a user-facing message belongs to
Category(detail) ==
    IF detail = <<>> THEN "none"
    ELSE IF detail[1] \in {"Invalid coordinates: ", "Excel error: ", "No coordinates were passed"}
    THEN "InvalidCoordinateInput"
    ELSE IF detail[1] = "Not enough memory to process the PDF. " THEN "ResourceExhausted"
    ELSE IF detail[1] = "PDF error: " /\ Len(detail) >= 2
            /\ detail[2] = "Not enough memory to render page "
    THEN "ResourceExhausted"
    ELSE IF detail[1] = "PDF error: " /\ Len(detail) >= 2 /\ detail[2] = "PDF is password protected"
    THEN "EncryptedDocument"
    ELSE IF detail[1] = "PDF error: " THEN "MalformedDocument"
    ELSE "InternalFault"

\* C3 as claimed.  A failed request gets status 400 iff the failure is an
\* input failure (coordinate extraction, missing source, rasterizer); a
\* failure raised by create_plot or by report assembly, whatever its
\* exception type, is an InternalFault with status 500.
C3_RendererFailuresAre500 ==
    (Returned /\ response.status # 200) =>
        /\ response.status \in {400, 500}
        /\ response.status = 500 <=> LastCall \in {"create_plot", "Document"}
        /\ response.status = 400 =>
             Category(response.detail) \in {"InvalidCoordinateInput", "MalformedDocument",
                                            "EncryptedDocument", "ResourceExhausted"}

\* the password/encryption, broken-container and cross-reference indicators
\* of a back-end diagnostic
Indicates(msg, kind) ==
    \E i \in 1..Len(msg) :
        CASE kind = "password" ->
                 msg[i] \in {"password required", "Password required", "document is encrypted"}
          [] kind = "broken" -> msg[i] = "cannot open broken document"
          [] kind = "xref" -> msg[i] \in {"cannot find xref table", "no objects"}
          [] OTHER -> FALSE

IsSuffix(t, m) == Len(t) <= Len(m) /\ SubSeq(m, Len(m) - Len(t) + 1, Len(m)) = t

\* C4 as claimed.  Empty content fails as MalformedDocument ("empty");
\* every failure of the open attempt, whatever its kind, is classified by
\* the first matching rule: password/encryption -> EncryptedDocument, broken
\* container -> MalformedDocument (corrupt or invalid format), xref/object
\* table -> MalformedDocument (corrupted structure), anything else ->
\* MalformedDocument with the diagnostic preserved; memory exhaustion ->
\* ResourceExhausted.  A password indicator is never MalformedDocument.
C4_OpenFailureClassifiedWhateverItsKind ==
    Called =>
        IF arg.empty THEN ~ret.ok /\ ret.msg = <<"PDF error: ", "PDF file is empty">>
        ELSE IF arg.open.ok THEN TRUE
        ELSE LET e == arg.open IN
             /\ ~ret.ok
             /\ ret.type = "ValueError"
             /\ IF e.type = "MemoryError" THEN Category(ret.msg) = "ResourceExhausted"
                ELSE IF Indicates(e.msg, "password") THEN Category(ret.msg) = "EncryptedDocument"
                ELSE IF Indicates(e.msg, "broken")
                THEN ret.msg = <<"PDF error: ", "PDF is corrupt or has an invalid format">>
                ELSE IF Indicates(e.msg, "xref")
                THEN ret.msg = <<"PDF error: ", "PDF has a corrupted structure">>
                ELSE Category(ret.msg) = "MalformedDocument" /\ IsSuffix(e.msg, ret.msg)

\* the part of C4 the code does satisfy: the claim's outcome whenever the
\* open failure is a RuntimeError (or a subclass) or a MemoryError
C4_HoldsForRuntimeErrors ==
    (Called /\ ~arg.empty /\ ~arg.open.ok
       /\ arg.open.type \notin {"RuntimeError", "FileDataError", "MemoryError"})
    \/ C4_OpenFailureClassifiedWhateverItsKind

FirstFailing(pages) == CHOOSE k \in 1..Len(pages) : pages[k] # "ok" /\ \A j \in 1..(k - 1) : pages[j] = "ok"
Opens(pdf) == Supplied(pdf) /\ ~pdf.empty /\ pdf.open.ok
AllRender(pdf) == \A k \in 1..Len(pdf.pages) : pdf.pages[k] = "ok"
PixmapCalls == SelectSeq(log, LAMBDA e : e[1] = "get_pixmap")

\* C5.  When the rasterizer runs on a document that opens and rendering
\* page k is the first to fail: get_pixmap was called on pages 1..k and on no
\* later page, the handler got no images (not those of pages 1..k-1
\* either), no later stage ran, the response has status 400 and no body,
\* and its message keeps the page-specific text and the index k:
\* "Not enough memory to render page k" (ResourceExhausted) for a memory
\* error, "Error rendering page k: <diagnostic>" (MalformedDocument)
\* otherwise.
C5_PageLoopFailFast ==
    (Returned /\ Made("pdf_to_images") /\ Opens(req.pdf_file) /\ ~AllRender(req.pdf_file)) =>
        LET k == FirstFailing(req.pdf_file.pages) IN
        /\ PixmapCalls = [i \in 1..k |-> <<"get_pixmap", i>>]
        /\ pdf_images = <<>>
        /\ LastCall = "get_pixmap"
        /\ response.status = 400
        /\ response.body = <<>>
        /\ IF req.pdf_file.pages[k] = "render_MemoryError"
           THEN /\ response.detail =
                     <<"PDF error: ", "Not enough memory to render page ", ToString(k),
                       ". PDF is too large or has a very high resolution.">>
                /\ Category(response.detail) = "ResourceExhausted"
           ELSE /\ response.detail =
                     <<"PDF error: ", "Error rendering page ", ToString(k), ": ",
                       "cannot render page">>
                /\ Category(response.detail) = "MalformedDocument"

\* C5's case: page 1 rendered, page 2 ran out of memory
C5_Witness ==
    /\ Returned
    /\ Made("pdf_to_images")
    /\ Opens(req.pdf_file)
    /\ Len(req.pdf_file.pages) = 2
    /\ req.pdf_file.pages[1] = "ok"
    /\ req.pdf_file.pages[2] = "render_MemoryError"
    /\ response.status = 400

\* C6.  Once the rasterizer has run on a document that opens and whose n
\* pages all render, the handler holds exactly n images, the i-th being the
\* rendition of page i, and the rasterizer has not failed the request (n = 0
\* included); a report that is returned holds, after the chart picture,
\* exactly n label+picture pairs labelled Page 1 .. Page n in that order,
\* n being 0 when no document was supplied.
C6_PagesInOrder ==
    /\ (Made("pdf_to_images") /\ Opens(req.pdf_file) /\ AllRender(req.pdf_file)) =>
          /\ pdf_images = [i \in 1..Len(req.pdf_file.pages) |-> Image(i)]
          /\ ~(Returned /\ LastCall \in {"pdf_to_images", "get_pixmap"})
    /\ (Returned /\ response.status = 200) =>
          LET n == IF Supplied(req.pdf_file) THEN Len(req.pdf_file.pages) ELSE 0
              body == response.body
          IN  /\ Len(pdf_images) = n
              /\ Len(body) = 5 + 2 * n
              /\ body[5] = Picture([src |-> "chart", page |-> 0])
              /\ \A j \in 1..4 : body[j].kind # "picture"
              /\ \A i \in 1..n :
                    /\ body[5 + 2 * i - 1] = Paragraph(<<"Page ", ToString(i), ":">>)
                    /\ body[5 + 2 * i] = Picture(Image(i))

\* C6's case: a report was returned for a two-page document
C6_Witness ==
    /\ Returned
    /\ response.status = 200
    /\ Supplied(req.pdf_file)
    /\ Len(req.pdf_file.pages) = 2
    /\ Len(response.body) = 9

\* what parse_coords_excel has to return for an upload (see C2)
ExcelRows(f) == SelectSeq(IF Len(f.rows) >= 1 THEN DataRows(f) ELSE <<>>, RowValid)
ExcelFails(f) ==
    LET d == IF Len(f.rows) >= 1 THEN DataRows(f) ELSE <<>> IN
    \/ ~f.ok
    \/ ExcelRows(f) = <<>>
    \/ \E i \in 1..Len(d) : ValidBefore(d, i) < 10 /\ RowOffending(d[i])
ExcelCoords(f) == [i \in 1..Min(Len(ExcelRows(f)), 10) |-> Value(ExcelRows(f)[i])]

\* C7.  When a spreadsheet is supplied (with or without a text payload),
\* the only extractor called is parse_coords_excel: the text payload is
\* never parsed; the coordinates the handler holds and the chart plots are
\* exactly the spreadsheet's; and if the spreadsheet extraction fails the
\* request ends there with status 400 and the spreadsheet's
\* InvalidCoordinateInput, a valid text payload notwithstanding.
C7_SpreadsheetPrecedence ==
    (pc \in {"rasterize", "plot", "assemble", "done"} /\ Supplied(req.excel_file)) =>
        /\ Calls[1] = "parse_coords_excel"
        /\ ~Made("parse_coords_json")
        /\ IF ExcelFails(req.excel_file)
           THEN /\ Returned
                /\ Len(log) = 1
                /\ coords = <<>>
                /\ response.status = 400
                /\ response.detail[1] = "Excel error: "
           ELSE /\ coords = ExcelCoords(req.excel_file)
                /\ Made("create_plot") /\ plot_buf # NoDrawing =>
                      plot_buf.scatter = ExcelCoords(req.excel_file)

\* C7's case: the spreadsheet failed although the text payload is valid
C7_Witness ==
    /\ Returned
    /\ Supplied(req.excel_file)
    /\ ExcelFails(req.excel_file)
    /\ Supplied(req.coords_json)
    /\ parse_coords_json(req.coords_json).ok
    /\ response.status = 400

\* C8 as claimed (the drawing surfaces).  Whenever the handler has
\* returned, with a report or with a failure, and while the process waits
\* for the next request, pyplot's registry holds no figure.
C8_NoFigureLeftAfterReturn ==
    pc \in {"done", "idle"} => figures = 0

Rank(call) ==
    CASE call \in {"parse_coords_excel", "parse_coords_json"} -> 1
      [] call = "pdf_file.read" -> 2
      [] call = "pdf_to_images" -> 3
      [] call = "get_pixmap" -> 4
      [] call = "create_plot" -> 5
      [] call = "Document" -> 6

\* C9.  With neither a spreadsheet nor an effectively present text (an
\* empty text counts as absent) the request fails with status 400
\* "No coordinates were passed" having called nothing: no extractor, no read
\* of the document, no rasterizer, renderer or assembler.  The calls of a
\* request are made in the order extraction, document read, rasterization,
\* chart, assembly, each stage only after every earlier one succeeded; a
\* request whose extraction fails reports the coordinate failure and never
\* reads the document.
C9_StageOrder ==
    /\ (Returned /\ ~Supplied(req.excel_file) /\ ~Supplied(req.coords_json)) =>
          /\ log = <<>>
          /\ response.status = 400
          /\ response.detail = <<"No coordinates were passed">>
          /\ Category(response.detail) = "InvalidCoordinateInput"
    /\ \A i \in 1..Len(log) : \A j \in (i + 1)..Len(log) :
          /\ Rank(Calls[i]) <= Rank(Calls[j])
          /\ Rank(Calls[i]) = Rank(Calls[j]) => Calls[i] = "get_pixmap"
    /\ (Made("pdf_file.read") \/ Made("create_plot")) =>
          /\ Rank(Calls[1]) = 1
          /\ coords # <<>>
    /\ Made("create_plot") =>
          IF Supplied(req.pdf_file)
          THEN /\ Made("pdf_to_images")
               /\ Opens(req.pdf_file) /\ AllRender(req.pdf_file)
               /\ Len(pdf_images) = Len(req.pdf_file.pages)
          ELSE ~Made("pdf_file.read") /\ ~Made("pdf_to_images")
    /\ Made("Document") => Made("create_plot") /\ plot_buf # NoDrawing
    /\ (Returned /\ coords = <<>>) =>
          /\ response.status = 400
          /\ Category(response.detail) = "InvalidCoordinateInput"
          /\ ~Made("pdf_file.read")
          /\ Len(log) <= 1

\* C9's case: an empty text, no spreadsheet, and a document that is not read
C9_Witness ==
    /\ Returned
    /\ req.coords_json = EmptyText
    /\ ~Supplied(req.excel_file)
    /\ Supplied(req.pdf_file)
    /\ log = <<>>
    /\ response.status = 400

--------------------------------------------------------------------------
(* Properties of create_plot *)

IsStableSortByX(out, inp) ==
    /\ Len(out) = Len(inp)
    /\ \A i \in 1..(Len(out) - 1) : out[i][1] <= out[i + 1][1]
    /\ \A v \in { inp[i][1] : i \in 1..Len(inp) } \cup { out[i][1] : i \in 1..Len(out) } :
          SelectSeq(out, LAMBDA q : q[1] = v) = SelectSeq(inp, LAMBDA q : q[1] = v)

\* C10.  For a coordinate sequence of n >= 1 pairs: the argument is left
\* unchanged; with n = 1 no fit is attempted (so none can fail) and a chart
\* that is returned has neither trend line nor annotation; with n >= 2 a
\* chart that is returned has both, the fit was computed over the pairs in
\* their original order, and the connecting line and the trend line run
\* over the x-ascending stable sort of the pairs (equal x keep their
\* original relative order); the scatter keeps the original order.
C10_TrendAndSortedCopy ==
    Called =>
        /\ ret.coords = arg
        /\ Len(arg) = 1 => ret.type # "LinAlgError"
        /\ ret.ok =>
             /\ ret.val.scatter = arg
             /\ IsStableSortByX(ret.val.line, arg)
             /\ ret.val.trend # <<>> <=> Len(arg) >= 2
             /\ ret.val.text # <<>> <=> Len(arg) >= 2
             /\ Len(arg) >= 2 =>
                   /\ ret.val.fit.over = arg
                   /\ Len(ret.val.trend) = Len(arg)
                   /\ \A i \in 1..Len(arg) : ret.val.trend[i][1] = ret.val.line[i][1]

\* C10's case: a chart was returned for pairs that are not in x order and
\* hold two different pairs with the same x
C10_Witness ==
    /\ Called
    /\ ret.ok
    /\ Len(arg) >= 3
    /\ arg[1][1] > arg[2][1]
    /\ \E i \in 1..Len(arg) : \E j \in (i + 1)..Len(arg) :
          arg[i][1] = arg[j][1] /\ arg[i][2] > arg[j][2]
    /\ ret.val.trend # <<>>

==========================================================================
